---- MODULE Spec2Model ----
(***************************************************************************)
(* A model of the MRI extraction tools:                                    *)
(*   - process_dicoms (extract_dicom_for_vlm.py): the classification pass  *)
(*     that builds series_dict, the per-series conversion pass and the     *)
(*     series summary;                                                     *)
(*   - the intensity normalisation of process_dicoms, on raw buffers with  *)
(*     the element width of their dtype;                                   *)
(*   - the image selection of prepare_for_vlm (prepare_for_vlm.py) and of  *)
(*     create_html_report (create_report.py).                              *)
(* Strings are sequences of one-character strings, so that sanitising and  *)
(* slicing act on characters.                                              *)
(***************************************************************************)
EXTENDS Integers, Sequences, FiniteSets, TLC

VARIABLES
    pc,           \* process_dicoms: where the run is
    dir,          \* the files input_path.glob("*.DCM") enumerates, in its order
    pos,          \* first pass: position of the next file of dir
    series_dict,  \* insertion-ordered dict: sequence of [name, files]
    b,            \* second pass: position of the current bucket
    i,            \* second pass: enumerate index of the next file of the bucket
    images,       \* slice_NNNN.png written: set of [series, index, file]
    sidecars,     \* slice_NNNN_metadata.txt written: set of [series, index, file]
    anon,         \* files of dir saved to anonymized_dicoms
    summaries,    \* series_info.txt written: set of [series, src, count, error]
    errors,       \* files whose error was printed (either pass)
    npc,          \* normaliser: "idle" | "ready" | "done"
    dtype,        \* normaliser: element type of the raw buffer
    pixel_array,  \* normaliser: the raw buffer (flattened), a sequence of integers
    window,       \* normaliser: the file's WindowCenter and WindowWidth tags
    clipped,      \* normaliser: the buffer after the window step (line 99)
    out_array,    \* normaliser: the uint8 result
    spc,          \* sampler: "idle" | "ready" | "done" | "error"
    caller,       \* sampler: "prepare" | "report"
    n_images,     \* sampler: len(image_files)
    max_images,   \* sampler: --max (None is modelled as NoLimit)
    selected      \* sampler: the indices into image_files that are selected

pipeVars == <<pc, dir, pos, series_dict, b, i, images, sidecars, anon, summaries, errors>>
normVars == <<npc, dtype, pixel_array, window, clipped, out_array>>
sampVars == <<spc, caller, n_images, max_images, selected>>
vars == <<pipeVars, normVars, sampVars>>

----------------------------------------------------------------------------
(* Bounds *)

\* files in the input directory
MaxFiles == 3

\* elements of a raw buffer
MaxLen == 3

\* images of a series directory
MaxImages == 12

\* the greatest --max
MaxK == 13

----------------------------------------------------------------------------
(* Strings *)

Letters == {"T", "u", "n", "k", "o", "w"}
Digits == {"1", "2", "3", "4", "5", "9"}
Others == {" ", "_", "."}

\* str.isalnum() on one character
IsAlnum(c) == c \in Letters \cup Digits

\* the fallback literal 'unknown'
Unknown == <<"u", "n", "k", "n", "o", "w", "n">>

\* a tag the data set does not carry
Absent == <<"ABSENT">>

\* the literal the summary writes for a missing tag
NA == <<"N", "/", "A">>

\* series_uid[-8:] keeps this many characters
SuffixLen == 8

UidA == <<"1", ".", "2", ".", "3", ".", "4", ".", "5">>
UidB == <<"9", ".", "2", ".", "3", ".", "4", ".", "5">>

DescSpace == <<"T", "1", " ">>
DescUnder == <<"T", "1", "_">>

\* where the full conversion of a file raises, if it does
FailStages == {"ok", "decode", "normalize", "image", "sidecar"}

\* the series tags of the input files: two identifiers that end alike, two
\* descriptions that sanitise alike, and either tag missing
Headers ==
    { [uid |-> UidA, desc |-> DescSpace],
      [uid |-> UidB, desc |-> DescUnder],
      [uid |-> UidA, desc |-> Absent],
      [uid |-> Absent, desc |-> DescUnder] }

\* a file of the input directory: what its two decodes give
DcmFiles ==
    { [metaOk |-> TRUE, uid |-> h.uid, desc |-> h.desc, fail |-> s] :
        h \in Headers, s \in FailStages }
    \cup {[metaOk |-> FALSE, uid |-> Absent, desc |-> Absent, fail |-> "decode"]}

----------------------------------------------------------------------------
(* Series Classifier: extract_dicom_for_vlm.py lines 37-42 *)

\* ds.SeriesInstanceUID if 'SeriesInstanceUID' in ds else 'unknown'
SeriesUidOf(f) == IF f.uid = Absent THEN Unknown ELSE f.uid

\* ds.SeriesDescription if 'SeriesDescription' in ds else 'unknown'
SeriesDescOf(f) == IF f.desc = Absent THEN Unknown ELSE f.desc

\* ''.join(c if c.isalnum() else '_' for c in series_desc)
CleanDesc(s) == [k \in 1..Len(s) |-> IF IsAlnum(s[k]) THEN s[k] ELSE "_"]

\* series_uid[-8:]
UidSuffix(s) == IF Len(s) <= SuffixLen THEN s ELSE SubSeq(s, Len(s) - SuffixLen + 1, Len(s))

\* a key made of the description alone
SeriesNameNoSuffix(f) == CleanDesc(SeriesDescOf(f))

\* f"{clean_desc}_{series_uid[-8:]}"
SeriesName(f) == CleanDesc(SeriesDescOf(f)) \o <<"_">> \o UidSuffix(SeriesUidOf(f))

\* the position of name in series_dict, 0 when it is no key
KeyPos(d, name) ==
    IF \E k \in 1..Len(d) : d[k].name = name
    THEN CHOOSE k \in 1..Len(d) : d[k].name = name
    ELSE 0

\* series_dict[series_name].append(dcm_file), creating the list at first use
DictAppend(d, name, f) ==
    IF KeyPos(d, name) = 0
    THEN Append(d, [name |-> name, files |-> <<f>>])
    ELSE [d EXCEPT ![KeyPos(d, name)].files = Append(@, f)]

----------------------------------------------------------------------------
(* process_dicoms *)

PipeIdle ==
    /\ pc = "idle"
    /\ dir = << >>
    /\ pos = 1
    /\ series_dict = << >>
    /\ b = 1
    /\ i = 0
    /\ images = {}
    /\ sidecars = {}
    /\ anon = {}
    /\ summaries = {}
    /\ errors = {}

PipeInit ==
    /\ pc = "classify"
    /\ dir \in UNION {[1..n -> DcmFiles] : n \in 0..MaxFiles}
    /\ pos = 1
    /\ series_dict = << >>
    /\ b = 1
    /\ i = 0
    /\ images = {}
    /\ sidecars = {}
    /\ anon = {}
    /\ summaries = {}
    /\ errors = {}

\* one iteration of the first pass
ClassifyFile ==
    /\ pc = "classify"
    /\ pos <= Len(dir)
    /\ IF dir[pos].metaOk
       THEN /\ series_dict' = DictAppend(series_dict, SeriesName(dir[pos]), pos)
            /\ UNCHANGED errors
       ELSE /\ errors' = errors \cup {pos}
            /\ UNCHANGED series_dict
    /\ pos' = pos + 1
    /\ UNCHANGED <<pc, dir, b, i, images, sidecars, anon, summaries>>

\* the first pass is over: print(f"Found {len(series_dict)} unique series")
EndClassify ==
    /\ pc = "classify"
    /\ pos > Len(dir)
    /\ pc' = "series"
    /\ b' = 1
    /\ UNCHANGED <<dir, pos, series_dict, i, images, sidecars, anon, summaries, errors>>

\* the head of the second pass: the series directory is made
StartSeries ==
    /\ pc = "series"
    /\ b <= Len(series_dict)
    /\ pc' = "files"
    /\ i' = 0
    /\ UNCHANGED <<dir, pos, series_dict, b, images, sidecars, anon, summaries, errors>>

\* the index a file's image and sidecar are named by, one-based
SliceIndexOneBased(k) == k + 1

\* the index a file's image and sidecar are named by: enumerate's i
SliceIndex(k) == k

\* the body of the inner loop without its try: an exception ends the run
ConvertFileNoTry ==
    /\ pc = "files"
    /\ i < Len(series_dict[b].files)
    /\ LET name == series_dict[b].name
           f == series_dict[b].files[i + 1]
           art == [series |-> name, index |-> SliceIndex(i), file |-> f]
           stage == dir[f].fail
       IN /\ anon' = IF stage = "decode" THEN anon ELSE anon \cup {f}
          /\ images' = IF stage \in {"ok", "sidecar"} THEN images \cup {art} ELSE images
          /\ sidecars' = IF stage = "ok" THEN sidecars \cup {art} ELSE sidecars
          /\ errors' = errors
          /\ pc' = IF stage = "ok" THEN pc ELSE "crashed"
    /\ i' = i + 1
    /\ UNCHANGED <<dir, pos, series_dict, b, summaries>>

\* one iteration of the inner loop: the try block and its except
ConvertFile ==
    /\ pc = "files"
    /\ i < Len(series_dict[b].files)
    /\ LET name == series_dict[b].name
           f == series_dict[b].files[i + 1]
           art == [series |-> name, index |-> SliceIndex(i), file |-> f]
           stage == dir[f].fail
       IN /\ anon' = IF stage = "decode" THEN anon ELSE anon \cup {f}
          /\ images' = IF stage \in {"ok", "sidecar"} THEN images \cup {art} ELSE images
          /\ sidecars' = IF stage = "ok" THEN sidecars \cup {art} ELSE sidecars
          /\ errors' = IF stage = "ok" THEN errors ELSE errors \cup {f}
    /\ i' = i + 1
    /\ UNCHANGED <<pc, dir, pos, series_dict, b, summaries>>

\* the summary's image count taken from the images written
SummaryCountMaterialized(name, files) == Cardinality({a \in images : a.series = name})

\* f"Number of Images: {len(file_list)}"
SummaryCount(name, files) == Len(files)

\* the series summary, written after the inner loop
WriteSummary ==
    /\ pc = "files"
    /\ i = Len(series_dict[b].files)
    /\ LET name == series_dict[b].name
           files == series_dict[b].files
           sample_ds == dir[files[1]]
           rec == IF sample_ds.metaOk
                  THEN [series |-> name, src |-> files[1],
                        desc |-> IF sample_ds.desc = Absent THEN NA ELSE sample_ds.desc,
                        uid |-> IF sample_ds.uid = Absent THEN NA ELSE sample_ds.uid,
                        count |-> SummaryCount(name, files), error |-> FALSE]
                  ELSE [series |-> name, src |-> 0, desc |-> NA, uid |-> NA,
                        count |-> 0, error |-> TRUE]
       IN summaries' = {s \in summaries : s.series # name} \cup {rec}
    /\ b' = b + 1
    /\ pc' = "series"
    /\ UNCHANGED <<dir, pos, series_dict, i, images, sidecars, anon, errors>>

\* the second pass is over: print("Processing complete!")
Finish ==
    /\ pc = "series"
    /\ b > Len(series_dict)
    /\ pc' = "done"
    /\ UNCHANGED <<dir, pos, series_dict, b, i, images, sidecars, anon, summaries, errors>>

----------------------------------------------------------------------------
(* Windowing and intensity normalisation: extract_dicom_for_vlm.py lines 84-106 *)

\* declared depth and signedness of the raw buffer
DTypes == [bits : {8, 12, 16}, signed : BOOLEAN]

RECURSIVE Pow2(_)
Pow2(e) == IF e = 0 THEN 1 ELSE 2 * Pow2(e - 1)

\* the width of the numpy element type pydicom gives the buffer
ElemWidth(dt) == IF dt.bits = 8 THEN 8 ELSE 16

\* the least and the greatest value of the declared depth
DepthMin(dt) == IF dt.signed THEN 0 - Pow2(dt.bits - 1) ELSE 0
DepthMax(dt) == IF dt.signed THEN Pow2(dt.bits - 1) - 1 ELSE Pow2(dt.bits) - 1

\* the raw values the buffers are drawn from: the ends of the declared range and
\* the values around zero and around the middle
Samples(dt) ==
    {v \in {DepthMin(dt), 0 - 1, 0, 1, 100, 200, Pow2(dt.bits - 1), DepthMax(dt)} :
        DepthMin(dt) <= v /\ v <= DepthMax(dt)}

\* the element type np.clip gives with the float bounds of a window: no wrap-around
Float64 == [bits |-> 64, signed |-> TRUE]

\* a tag that is missing, a tag with one value, a tag with several
NoTag == [kind |-> "absent", val |-> 0, vals |-> << >>]
Single(v) == [kind |-> "single", val |-> v, vals |-> << >>]
Multi(vs) == [kind |-> "multi", val |-> 0, vals |-> vs]

\* the WindowCenter and WindowWidth tags the buffers come with
CenterTags == {NoTag, Single(100), Multi(<<100, 300>>)}
WidthTags == {NoTag, Single(50), Single(51), Multi(<<50, 400>>)}

\* all(attr in ds for attr in ['WindowCenter', 'WindowWidth'])
HasWindow(w) == w.center.kind # "absent" /\ w.width.kind # "absent"

\* lines 90-93: center[0] or width[0] of a MultiValue, the value itself otherwise
FirstValue(t) == IF t.kind = "multi" THEN t.vals[1] ELSE t.val

\* the whole width
FullWidth(w) == w

\* width // 2
HalfWidth(w) == w \div 2

\* y_min and y_max, lines 95-96
WindowLow(w) == FirstValue(w.center) - HalfWidth(FirstValue(w.width))
WindowHigh(w) == FirstValue(w.center) + HalfWidth(FirstValue(w.width))

\* np.clip on one element: minimum(maximum(v, lo), hi)
Clip(v, lo, hi) ==
    LET m == IF v < lo THEN lo ELSE v
    IN IF m > hi THEN hi ELSE m

\* pixel_array after lines 84-99
WindowedArray(a, w) ==
    IF HasWindow(w)
    THEN [j \in DOMAIN a |-> Clip(a[j], WindowLow(w), WindowHigh(w))]
    ELSE a

\* the element type of pixel_array after lines 84-99
WindowedType(dt, w) == IF HasWindow(w) THEN Float64 ELSE dt

\* integer arithmetic in the buffer's element type wraps around
Wrap(x, dt) ==
    IF dt = Float64 THEN x
    ELSE LET m == Pow2(ElemWidth(dt))
         IN IF dt.signed THEN ((x + m \div 2) % m) - m \div 2 ELSE x % m

RECURSIVE SeqMin(_)
SeqMin(a) == IF Len(a) = 1 THEN a[1]
             ELSE LET r == SeqMin(Tail(a)) IN IF a[1] < r THEN a[1] ELSE r

RECURSIVE SeqMax(_)
SeqMax(a) == IF Len(a) = 1 THEN a[1]
             ELSE LET r == SeqMax(Tail(a)) IN IF a[1] > r THEN a[1] ELSE r

\* the integer part of a / d, towards zero, d # 0
TruncDiv(a, d) ==
    LET aa == IF a < 0 THEN 0 - a ELSE a
        dd == IF d < 0 THEN 0 - d ELSE d
    IN IF (a < 0) = (d < 0) THEN aa \div dd ELSE 0 - (aa \div dd)

\* a scaling to 0..256
ScaledTo256(e, d) == TruncDiv(256 * e, d)

\* a / d rounded to the nearest integer, halves to the even one, a >= 0, d > 0
RoundDiv(a, d) ==
    LET q == a \div d
        r == a % d
    IN IF 2 * r < d THEN q
       ELSE IF 2 * r > d THEN q + 1
       ELSE IF q % 2 = 0 THEN q ELSE q + 1

\* e / d * 255 rounded to the nearest integer, d # 0
ScaledRounded(e, d) ==
    LET a == IF d < 0 THEN 0 - 255 * e ELSE 255 * e
        dd == IF d < 0 THEN 0 - d ELSE d
    IN IF a >= 0 THEN RoundDiv(a, dd) ELSE 0 - RoundDiv(0 - a, dd)

\* e / d * 255, as astype cuts it to an integer
Scaled(e, d) == TruncDiv(255 * e, d)

\* what the float-to-uint8 cast of a build does with a value outside 0..255:
\* it wraps modulo 256 or it saturates
CastModes == {"wrap", "saturate"}

\* .astype(np.uint8) of a float whose integer part is t
CastU8(mode, t) ==
    IF t \in 0..255 THEN t
    ELSE IF mode = "wrap" THEN t % 256
    ELSE IF t < 0 THEN 0 ELSE 255

\* the normalised buffer, lines 102-106
NormalizedArray(a, dt, mode) ==
    LET lo == SeqMin(a)
        hi == SeqMax(a)
        range == Wrap(hi - lo, dt)
    IN IF hi # lo
       THEN [j \in DOMAIN a |-> CastU8(mode, Scaled(Wrap(a[j] - lo, dt), range))]
       ELSE [j \in DOMAIN a |-> 0]

NormInit ==
    /\ npc = "ready"
    /\ dtype \in DTypes
    /\ pixel_array \in UNION {[1..n -> Samples(dtype)] : n \in 1..MaxLen}
    /\ window \in [center : CenterTags, width : WidthTags]
    /\ clipped = << >>
    /\ out_array = << >>

\* lines 84-106: the window, if the file has one, then the normalisation
Normalize ==
    /\ npc = "ready"
    /\ clipped' = WindowedArray(pixel_array, window)
    /\ \E mode \in CastModes :
          out_array' = NormalizedArray(WindowedArray(pixel_array, window),
                                       WindowedType(dtype, window), mode)
    /\ npc' = "done"
    /\ UNCHANGED <<dtype, pixel_array, window>>

----------------------------------------------------------------------------
(* Sampler: prepare_for_vlm.py lines 63-73, create_report.py lines 132-138 *)

\* max_images=None
NoLimit == -1

\* create_html_report shows this many images of a series
ReportCount == 9

\* image_files as it is: every index, in order
AllImages(n) == [j \in 1..n |-> j - 1]

\* the index rounded to the nearest integer, halves to the even one
SampleIndexRounded(j, n, k) ==
    LET a == j * (n - 1)
        d == k - 1
        q == a \div d
        r == a % d
    IN IF 2 * r < d THEN q
       ELSE IF 2 * r > d THEN q + 1
       ELSE IF q % 2 = 0 THEN q ELSE q + 1

\* int(i * (len(image_files) - 1) / (max_images - 1)), for i = j
SampleIndex(j, n, k) == (j * (n - 1)) \div (k - 1)

\* [int(i * (n - 1) / (k - 1)) for i in range(k)]
SampleIndices(n, k) == [j \in 1..k |-> SampleIndex(j - 1, n, k)]

SampInit ==
    /\ spc = "ready"
    /\ caller \in {"prepare", "report"}
    /\ n_images \in 0..MaxImages
    /\ max_images \in IF caller = "prepare" THEN {NoLimit} \cup 0..MaxK ELSE {NoLimit}
    /\ selected = << >>

\* prepare_for_vlm, lines 66-73
PrepareSelect ==
    /\ spc = "ready"
    /\ caller = "prepare"
    /\ IF max_images # NoLimit /\ max_images # 0 /\ n_images > max_images
       THEN IF max_images - 1 = 0
            THEN \* ZeroDivisionError
                 /\ spc' = "error"
                 /\ UNCHANGED selected
            ELSE /\ selected' = SampleIndices(n_images, max_images)
                 /\ spc' = "done"
       ELSE /\ selected' = AllImages(n_images)
            /\ spc' = "done"
    /\ UNCHANGED <<caller, n_images, max_images>>

\* create_html_report, lines 132-138
ReportSelect ==
    /\ spc = "ready"
    /\ caller = "report"
    /\ IF n_images <= ReportCount
       THEN selected' = AllImages(n_images)
       ELSE selected' = SampleIndices(n_images, ReportCount)
    /\ spc' = "done"
    /\ UNCHANGED <<caller, n_images, max_images>>

----------------------------------------------------------------------------
(* Specifications *)

NormIdle ==
    /\ npc = "idle"
    /\ dtype = "none"
    /\ pixel_array = << >>
    /\ window = [center |-> NoTag, width |-> NoTag]
    /\ clipped = << >>
    /\ out_array = << >>

SampIdle ==
    /\ spc = "idle"
    /\ caller = "none"
    /\ n_images = 0
    /\ max_images = 0
    /\ selected = << >>

Init == PipeInit /\ NormIdle /\ SampIdle

Next ==
    \/ ClassifyFile /\ UNCHANGED <<normVars, sampVars>>
    \/ EndClassify /\ UNCHANGED <<normVars, sampVars>>
    \/ StartSeries /\ UNCHANGED <<normVars, sampVars>>
    \/ ConvertFile /\ UNCHANGED <<normVars, sampVars>>
    \/ WriteSummary /\ UNCHANGED <<normVars, sampVars>>
    \/ Finish /\ UNCHANGED <<normVars, sampVars>>

Spec == Init /\ [][Next]_vars

\* the normaliser alone
InitNorm == PipeIdle /\ NormInit /\ SampIdle

NextNorm == Normalize /\ UNCHANGED <<pipeVars, sampVars>>

SpecNorm == InitNorm /\ [][NextNorm]_vars

\* the two selections alone
InitSampler == PipeIdle /\ NormIdle /\ SampInit

NextSampler ==
    \/ PrepareSelect /\ UNCHANGED <<pipeVars, normVars>>
    \/ ReportSelect /\ UNCHANGED <<pipeVars, normVars>>

SpecSampler == InitSampler /\ [][NextSampler]_vars

----------------------------------------------------------------------------
(* process_dicoms: what the claims speak of *)

Buckets == 1..Len(series_dict)

FilesOf(k) == series_dict[k].files

\* the files of dir the first pass has put in a bucket
Classified == {f \in 1..Len(dir) : f < pos /\ dir[f].metaOk}

\* bucket k holds file f
InBucket(k, f) == \E p \in 1..Len(FilesOf(k)) : FilesOf(k)[p] = f

\* one bucket holds both f and g
SameBucket(f, g) == \E k \in Buckets : InBucket(k, f) /\ InBucket(k, g)

\* the inner loop and the summary of bucket k are over
BucketDone(k) == k < b

\* the inner loop has been through position p of bucket k
Converted(k, p) == k < b \/ (k = b /\ pc = "files" /\ p <= i)

HasImage(k, f) == \E a \in images : a.series = series_dict[k].name /\ a.file = f

HasSidecar(k, f) == \E a \in sidecars : a.series = series_dict[k].name /\ a.file = f

ImageIndices(k) == {a.index : a \in {x \in images : x.series = series_dict[k].name}}

SidecarIndices(k) == {a.index : a \in {x \in sidecars : x.series = series_dict[k].name}}

\* the first file, in bucket order, whose metadata-only decode succeeds
FirstDecodable(files) ==
    files[CHOOSE p \in 1..Len(files) :
            /\ dir[files[p]].metaOk
            /\ \A q \in 1..(p - 1) : ~dir[files[q]].metaOk]

\* C1: a file whose full decode, normalisation or artifact write fails is the only
\* one lost: no exception leaves process_dicoms, the run can always go on until
\* "Processing complete!", every file of a bucket that does not fail has its image
\* and its sidecar once the inner loop has passed it, every bucket passed has its
\* summary, and at the end every bucket has been passed.
C1_FailureConfined ==
    /\ pc # "crashed"
    /\ pc # "done" => ENABLED Next
    /\ \A k \in Buckets : \A p \in 1..Len(FilesOf(k)) :
          Converted(k, p) /\ dir[FilesOf(k)[p]].fail = "ok"
              => HasImage(k, FilesOf(k)[p]) /\ HasSidecar(k, FilesOf(k)[p])
    /\ \A k \in Buckets : BucketDone(k) => \E s \in summaries : s.series = series_dict[k].name
    /\ pc = "done" => b = Len(series_dict) + 1

\* a finished run in which a bucket lost a file before one it kept, and a later
\* bucket was converted too
C1_Witness ==
    /\ pc = "done"
    /\ \E k1, k2 \in Buckets :
          /\ k1 < k2
          /\ \E p1, p2 \in 1..Len(FilesOf(k1)) :
                /\ p1 < p2
                /\ dir[FilesOf(k1)[p1]].fail # "ok"
                /\ FilesOf(k1)[p1] \in errors
                /\ HasImage(k1, FilesOf(k1)[p2]) /\ HasSidecar(k1, FilesOf(k1)[p2])
          /\ \E p \in 1..Len(FilesOf(k2)) :
                HasImage(k2, FilesOf(k2)[p]) /\ HasSidecar(k2, FilesOf(k2)[p])

\* C3: two classified files whose metadata carries the same series
\* unique-identifier are in the same bucket, whatever their descriptions.
C3_SameUidSameBucket ==
    \A f, g \in Classified :
        dir[f].uid # Absent /\ dir[f].uid = dir[g].uid => SameBucket(f, g)

\* C4: every key of series_dict is made of alphanumeric characters and
\* underscores only.
C4_KeysAlnumUnderscore ==
    \A k \in Buckets : \A c \in 1..Len(series_dict[k].name) :
        IsAlnum(series_dict[k].name[c]) \/ series_dict[k].name[c] = "_"

\* C5 as stated: two classified files whose descriptions sanitise to the same
\* string and whose series unique-identifiers differ are in different buckets.
C5_DistinctUidDistinctBucket ==
    \A f, g \in Classified :
        /\ SeriesUidOf(dir[f]) # SeriesUidOf(dir[g])
        /\ CleanDesc(SeriesDescOf(dir[f])) = CleanDesc(SeriesDescOf(dir[g]))
        => ~SameBucket(f, g)

\* C5 amended: two classified files whose descriptions sanitise to the same string
\* and whose series unique-identifiers differ in their last 8 characters (the
\* literal 'unknown' standing for a missing identifier) are in different buckets.
C5_DistinctSuffixDistinctBucket ==
    \A f, g \in Classified :
        /\ f < g
        /\ UidSuffix(SeriesUidOf(dir[f])) # UidSuffix(SeriesUidOf(dir[g]))
        /\ CleanDesc(SeriesDescOf(dir[f])) = CleanDesc(SeriesDescOf(dir[g]))
        => ~SameBucket(f, g)

\* two classified files with differing descriptions that sanitise alike and
\* identifiers that end differently
C5_Witness ==
    \E f, g \in Classified :
        /\ dir[f].desc # dir[g].desc
        /\ CleanDesc(SeriesDescOf(dir[f])) = CleanDesc(SeriesDescOf(dir[g]))
        /\ UidSuffix(SeriesUidOf(dir[f])) # UidSuffix(SeriesUidOf(dir[g]))
        /\ ~SameBucket(f, g)

C7_OneSummaryPerBucket ==
    /\ \A k \in Buckets : BucketDone(k) =>
          LET mine == {s \in summaries : s.series = series_dict[k].name}
              first == FirstDecodable(FilesOf(k))
          IN /\ Cardinality(mine) = 1
             /\ \A s \in mine :
                   /\ ~s.error
                   /\ s.src = first
                   /\ s.desc = (IF dir[first].desc = Absent THEN NA ELSE dir[first].desc)
                   /\ s.uid = (IF dir[first].uid = Absent THEN NA ELSE dir[first].uid)
                   /\ s.count = Len(FilesOf(k))
    /\ \A s \in summaries : \E k \in Buckets : BucketDone(k) /\ s.series = series_dict[k].name

\* a finished run with a bucket of several files of which some were not written
C7_Witness ==
    /\ pc = "done"
    /\ \E k \in Buckets :
          /\ Len(FilesOf(k)) >= 2
          /\ Cardinality(ImageIndices(k)) < Len(FilesOf(k))
          /\ \E s \in summaries : s.series = series_dict[k].name /\ s.count = Len(FilesOf(k))

\* C11: when a bucket is done, its directory holds the image of index n if and
\* only if it holds the sidecar of index n: a write failure leaves neither.
C11_ImageIffSidecar ==
    \A k \in Buckets : BucketDone(k) => ImageIndices(k) = SidecarIndices(k)

----------------------------------------------------------------------------
(* The normaliser and the selections: what the claims speak of *)

\* C2: a buffer of declared depth 8, 12 or 16 bit, signed or unsigned, normalised
\* without a window gives an output of the input's shape with elements in 0..255;
\* when the buffer's maximum exceeds its minimum the output's least element is 0
\* and its greatest is 255, and when they are equal every output element is 0.
C2_NormalizedRange ==
    npc = "done" /\ ~HasWindow(window) =>
        /\ DOMAIN out_array = DOMAIN pixel_array
        /\ \A j \in DOMAIN out_array : out_array[j] \in 0..255
        /\ SeqMax(pixel_array) > SeqMin(pixel_array)
              => SeqMin(out_array) = 0 /\ SeqMax(out_array) = 255
        /\ SeqMax(pixel_array) = SeqMin(pixel_array)
              => \A j \in DOMAIN out_array : out_array[j] = 0

\* a normalised signed 16-bit buffer of three values whose max - min does not fit
\* 16 signed bits
C2_Witness ==
    /\ npc = "done"
    /\ ~HasWindow(window)
    /\ dtype = [bits |-> 16, signed |-> TRUE]
    /\ Len(pixel_array) >= 3
    /\ SeqMax(pixel_array) - SeqMin(pixel_array) > 32767
    /\ \E j \in DOMAIN pixel_array :
          pixel_array[j] # SeqMax(pixel_array) /\ pixel_array[j] # SeqMin(pixel_array)
    /\ SeqMin(out_array) = 0 /\ SeqMax(out_array) = 255

\* the selection the claims C8 to C10 speak of has a target count k
TargetCount == IF caller = "report" THEN ReportCount ELSE max_images

\* C8 as stated: for 2 <= k < n the selection has exactly k indices, the i-th
\* being round(i*(n-1)/(k-1)), the first 0 and the last n-1.
C8_IndicesRounded ==
    spc # "ready" /\ 2 <= TargetCount /\ TargetCount < n_images =>
        /\ spc = "done"
        /\ Len(selected) = TargetCount
        /\ \A j \in 1..Len(selected) :
              selected[j] = SampleIndexRounded(j - 1, n_images, TargetCount)
        /\ selected[1] = 0
        /\ selected[Len(selected)] = n_images - 1

\* C8 amended: for 2 <= k < n the selection has exactly k indices, the i-th being
\* the integer part of i*(n-1)/(k-1) (rounded down), the first 0 and the last n-1.
C8_IndicesFloored ==
    spc # "ready" /\ 2 <= TargetCount /\ TargetCount < n_images =>
        /\ spc = "done"
        /\ Len(selected) = TargetCount
        /\ \A j \in 1..Len(selected) :
              /\ selected[j] * (TargetCount - 1) <= (j - 1) * (n_images - 1)
              /\ (j - 1) * (n_images - 1) < (selected[j] + 1) * (TargetCount - 1)
        /\ selected[1] = 0
        /\ selected[Len(selected)] = n_images - 1

\* a selection in which rounding down and rounding to the nearest differ
C8_Witness ==
    /\ spc = "done"
    /\ 2 <= TargetCount /\ TargetCount < n_images
    /\ \E j \in 1..Len(selected) :
          selected[j] # SampleIndexRounded(j - 1, n_images, TargetCount)

\* C9: prepare_for_vlm with max_images = 1 on a series of n >= 1 images selects
\* the single index 0 and does not fail.
C9_SingleImage ==
    spc # "ready" /\ caller = "prepare" /\ max_images = 1 /\ n_images >= 1 =>
        spc = "done" /\ selected = <<0>>

\* C10: with a target count k >= 1 the selection never fails and has min(k, n)
\* entries; when k >= n it is all n images in their order.
C10_MinCount ==
    spc # "ready" /\ TargetCount >= 1 =>
        /\ spc = "done"
        /\ Len(selected) = (IF TargetCount < n_images THEN TargetCount ELSE n_images)
        /\ TargetCount >= n_images => selected = AllImages(n_images)

\* the buffer's minimum and maximum after the window step, and their difference
\* and an element's offset as the code computes them, in the element type
BufferMin == SeqMin(clipped)
BufferMax == SeqMax(clipped)
BufferRange == Wrap(BufferMax - BufferMin, WindowedType(dtype, window))
Offset(j) == Wrap(clipped[j] - BufferMin, WindowedType(dtype, window))

\* C12 as stated: when the (possibly clipped) maximum exceeds the minimum, every
\* output element is round((value - buffer_min) / (buffer_max - buffer_min) * 255).
C12_ElementsRounded ==
    npc = "done" /\ BufferMax > BufferMin =>
        \A j \in DOMAIN out_array :
            out_array[j] = RoundDiv(255 * (clipped[j] - BufferMin), BufferMax - BufferMin)

\* C12 amended: when the (possibly clipped) maximum exceeds the minimum, every
\* output element is the integer part (cut towards zero, not rounded) of
\* (value - buffer_min) / (buffer_max - buffer_min) * 255, the two differences
\* being computed in the buffer's element type, cast to uint8.  When
\* buffer_max - buffer_min fits the element type, which it always does for an
\* unsigned or a windowed buffer, that is the greatest integer not above
\* (value - buffer_min) * 255 / (buffer_max - buffer_min).
C12_ElementsTruncated ==
    npc = "done" /\ BufferMax > BufferMin =>
        \A j \in DOMAIN out_array :
            /\ \E mode \in CastModes :
                  out_array[j] = CastU8(mode, TruncDiv(255 * Offset(j), BufferRange))
            /\ BufferRange = BufferMax - BufferMin =>
                  /\ out_array[j] * (BufferMax - BufferMin) <= 255 * (clipped[j] - BufferMin)
                  /\ 255 * (clipped[j] - BufferMin) < (out_array[j] + 1) * (BufferMax - BufferMin)

\* a normalised buffer with an element that rounding would have put one higher
C12_Witness ==
    /\ npc = "done"
    /\ BufferMax > BufferMin
    /\ BufferRange = BufferMax - BufferMin
    /\ \E j \in DOMAIN out_array :
          out_array[j] + 1 = RoundDiv(255 * (clipped[j] - BufferMin), BufferMax - BufferMin)

\* the bounds of the window the claim C13 states: center -+ width // 2, of the first
\* values of the tags
ClaimedLow ==
    (IF window.center.kind = "multi" THEN window.center.vals[1] ELSE window.center.val)
    - ((IF window.width.kind = "multi" THEN window.width.vals[1] ELSE window.width.val) \div 2)
ClaimedHigh ==
    (IF window.center.kind = "multi" THEN window.center.vals[1] ELSE window.center.val)
    + ((IF window.width.kind = "multi" THEN window.width.vals[1] ELSE window.width.val) \div 2)

\* C13: with both a window center and a window width, every element is clipped to
\* [center - width // 2, center + width // 2] (first values of multi-valued tags)
\* before the minimum and the maximum are taken: the least clipped element comes out
\* as 0 and the greatest as 255, or all as 0 when they are equal; with center 100 and
\* width 50 a 200 becomes 125 and a 0 becomes 75.  When either tag is missing nothing
\* is clipped and the buffer's own minimum and maximum are used.
C13_WindowClips ==
    npc = "done" =>
        /\ DOMAIN clipped = DOMAIN pixel_array
        /\ window.center.kind # "absent" /\ window.width.kind # "absent" =>
              \A j \in DOMAIN pixel_array :
                 /\ pixel_array[j] < ClaimedLow => clipped[j] = ClaimedLow
                 /\ pixel_array[j] > ClaimedHigh => clipped[j] = ClaimedHigh
                 /\ ClaimedLow <= pixel_array[j] /\ pixel_array[j] <= ClaimedHigh
                       => clipped[j] = pixel_array[j]
                 /\ ClaimedLow = 75 /\ ClaimedHigh = 125 /\ pixel_array[j] = 200
                       => clipped[j] = 125
                 /\ ClaimedLow = 75 /\ ClaimedHigh = 125 /\ pixel_array[j] = 0
                       => clipped[j] = 75
        /\ window.center.kind = "absent" \/ window.width.kind = "absent" =>
              clipped = pixel_array
        /\ \A j \in DOMAIN clipped :
              IF BufferMax = BufferMin THEN out_array[j] = 0
              ELSE /\ clipped[j] = BufferMin => out_array[j] = 0
                   /\ clipped[j] = BufferMax => out_array[j] = 255

\* a buffer holding 200 and 0, normalised under a multi-valued center whose first
\* value is 100 and a width of 50
C13_Witness ==
    /\ npc = "done"
    /\ window.center.kind = "multi"
    /\ ClaimedLow = 75 /\ ClaimedHigh = 125
    /\ \E j, k \in DOMAIN pixel_array :
          /\ pixel_array[j] = 200 /\ clipped[j] = 125 /\ out_array[j] = 255
          /\ pixel_array[k] = 0 /\ clipped[k] = 75 /\ out_array[k] = 0

====
